---- MODULE Spec2Model ----
(***************************************************************************)
(* Quantum32 Hybrid Sampler, PC clients.                                   *)
(*                                                                         *)
(*   console   : pc_client_maxcut.py    (main)                             *)
(*   dashboard : pc_client_maxcutV2.py  (QuantumDashboard)                 *)
(*                                                                         *)
(* Both clients read text lines from a serial link, collect the per-slave  *)
(* records of a tick in tick_buffer, score a tick once every slave index   *)
(* 0..NUM_SLAVES-1 is present, and keep the best score seen.               *)
(*                                                                         *)
(* A line is a sequence of one-character strings, so that split(",") and   *)
(* int()/float() are computed as the code computes them.  Python's None is *)
(* the empty sequence, a value x that is set is <<x>>.                     *)
(***************************************************************************)
EXTENDS Integers, Sequences, FiniteSets, TLC

\* ------------------------------------------------------------------------
\* Program constants
\* ------------------------------------------------------------------------
NUM_SLAVES == 4
BITS_PER_SLAVE == 4
N_BITS == NUM_SLAVES * BITS_PER_SLAVE
RING_WEIGHT == 1
READ_TIMEOUT_S == 25
BATCH_K == 300
\* len(tick_buffer) > 50 starts the cleanup, sorted(keys)[:-20] are removed
CLEANUP_ABOVE == 50
CLEANUP_KEEP == 20
\* best_score = -1e18 in the console (below every score; TLC integers are 32 bit)
CONSOLE_BEST_INIT == -1000000000
\* self.best_score = 0 in the dashboard
DASH_BEST_INIT == 0
\* the sampler parameters both clients send (temperatures aside)
PARAM_B == 5
PARAM_KP == 60
PARAM_M == 1
BATCH_STRIDE == 1
CONSOLE_BATCH_BURN == 20
DASH_BATCH_BURN == 50
\* PARAM_T = 0.20, in thousandths
PARAM_T == 200

\* ------------------------------------------------------------------------
\* Bounds of the model
\* ------------------------------------------------------------------------
\* the device emits lines only during the first MaxRxTime seconds of a run
MaxRxTime == 1
\* at most MaxSamples samples are scored in one run
MaxSamples == 3
\* the retention feed emits at most MaxFill filler ticks (one record each)
MaxFill == 51
\* the session feed emits MaxSessTicks ticks
MaxSessTicks == 2
\* bits_from_bmask is applied to the masks 0..MaxMask and the widths 0..MaxWidth
MaxMask == 31
MaxWidth == 5
\* maxcut_score is applied to MaxScoreBits bits and lists of up to MaxEdges edges
MaxScoreBits == 3
MaxEdges == 3

None == << >>
Some(x) == << x >>

\* ------------------------------------------------------------------------
\* Text: str.startswith, str.split, int(), float()
\* ------------------------------------------------------------------------
Digits == << "0", "1", "2", "3", "4", "5", "6", "7", "8", "9" >>
IsDigit(c) == \E i \in 1..10 : Digits[i] = c
DigitVal(c) == (CHOOSE i \in 1..10 : Digits[i] = c) - 1

startswith(line, prefix) ==
    /\ Len(line) >= Len(prefix)
    /\ \A i \in 1..Len(prefix) : line[i] = prefix[i]

\* line.split(sep): the fields between the separators, empty fields kept
RECURSIVE SplitFrom(_, _, _, _)
SplitFrom(line, sep, i, cur) ==
    IF i > Len(line) THEN << cur >>
    ELSE IF line[i] = sep THEN << cur >> \o SplitFrom(line, sep, i + 1, << >>)
    ELSE SplitFrom(line, sep, i + 1, Append(cur, line[i]))
split(line, sep) == SplitFrom(line, sep, 1, << >>)

RECURSIVE DigitsValue(_)
DigitsValue(s) ==
    IF s = << >> THEN 0
    ELSE 10 * DigitsValue(SubSeq(s, 1, Len(s) - 1)) + DigitVal(s[Len(s)])
AllDigits(s) == Len(s) >= 1 /\ \A i \in 1..Len(s) : IsDigit(s[i])
Unsigned(s) == IF s # << >> /\ s[1] \in {"-", "+"} THEN Tail(s) ELSE s
Negative(s) == s # << >> /\ s[1] = "-"

\* int(s): an optional sign and one or more decimal digits; anything else raises
ParseInt(s) ==
    IF AllDigits(Unsigned(s))
    THEN [ok |-> TRUE,
          v |-> IF Negative(s) THEN 0 - DigitsValue(Unsigned(s))
                ELSE DigitsValue(Unsigned(s))]
    ELSE [ok |-> FALSE, v |-> 0]

\* float(s): an optional sign, digits, optionally "." and digits, at least one
\* digit in all; the value is kept in hundredths
ParseFloat(s) ==
    LET u == Unsigned(s)
        dots == {i \in 1..Len(u) : u[i] = "."}
        p == IF dots = {} THEN Len(u) + 1 ELSE CHOOSE i \in dots : TRUE
        ip == SubSeq(u, 1, p - 1)
        fp == SubSeq(u, p + 1, Len(u))
        f2 == SubSeq(fp \o << "0", "0" >>, 1, 2)
        mag == 100 * DigitsValue(ip) + DigitsValue(f2)
    IN  IF /\ Cardinality(dots) <= 1
           /\ \A i \in 1..Len(ip) : IsDigit(ip[i])
           /\ \A i \in 1..Len(fp) : IsDigit(fp[i])
           /\ Len(ip) + Len(fp) >= 1
        THEN [ok |-> TRUE, v |-> IF Negative(s) THEN 0 - mag ELSE mag]
        ELSE [ok |-> FALSE, v |-> 0]

\* the device's decimal rendering of an integer
RECURSIVE NatText(_)
NatText(n) ==
    IF n < 10 THEN << Digits[n + 1] >>
    ELSE NatText(n \div 10) \o << Digits[(n % 10) + 1] >>
IntText(n) == IF n < 0 THEN << "-" >> \o NatText(0 - n) ELSE NatText(n)

\* ------------------------------------------------------------------------
\* Bit vectors and the Max-Cut score
\* ------------------------------------------------------------------------
RECURSIVE Pow2(_)
Pow2(k) == IF k = 0 THEN 1 ELSE 2 * Pow2(k - 1)

\* the bits taken from the most significant end
bits_from_bmask_msb_first(bmask, width) ==
    [k \in 1..width |-> (bmask \div Pow2(width - k)) % 2]
\* [(bmask >> i) & 1 for i in range(width)]; position i of the code is i+1 here
bits_from_bmask(bmask, width) ==
    [k \in 1..width |-> (bmask \div Pow2(k - 1)) % 2]

\* [(i, (i + 1) % n, w) for i in range(n)]
make_ring_edges(n, w) == [k \in 1..n |-> << k - 1, k % n, w >>]
EDGES == make_ring_edges(N_BITS, RING_WEIGHT)

\* for (i, j, w) in edges: if bits[i] != bits[j]: score += w
RECURSIVE ScoreFrom(_, _, _)
ScoreFrom(bits, edges, score) ==
    IF edges = << >> THEN score
    ELSE LET e == Head(edges)
         IN  ScoreFrom(bits, Tail(edges),
                       IF bits[e[1] + 1] # bits[e[2] + 1] THEN score + e[3] ELSE score)
\* the weights of the edges whose two endpoints hold the same bit
RECURSIVE maxcut_score_uncut(_, _)
maxcut_score_uncut(bits, edges) ==
    IF edges = << >> THEN 0
    ELSE LET e == Head(edges)
         IN  (IF bits[e[1] + 1] = bits[e[2] + 1] THEN e[3] ELSE 0)
                 + maxcut_score_uncut(bits, Tail(edges))
maxcut_score(bits, edges) == ScoreFrom(bits, edges, 0)

\* np.concatenate(vec)
RECURSIVE concatenate(_)
concatenate(vec) ==
    IF vec = << >> THEN << >> ELSE Head(vec) \o concatenate(Tail(vec))

\* "".join(str(int(x)) for x in bits)
bitstr(bits) == [k \in 1..Len(bits) |-> IF bits[k] = 1 THEN "1" ELSE "0"]

\* ------------------------------------------------------------------------
\* Numbers: clamping, "%.2f", and the temperatures of the annealing schedule
\* ------------------------------------------------------------------------
\* A float the user types is held in thousandths.  A temperature of the
\* dashboard is the quotient n/d of two integers, in hundredths (d > 0).
Abs(x) == IF x < 0 THEN -x ELSE x
Max2(a, b) == IF a >= b THEN a ELSE b
Min2(a, b) == IF a <= b THEN a ELSE b
Rat(n, d) == [n |-> n, d |-> d]

\* a clamp without its upper bound
clamp_int_from_below(x, lo, hi) == Max2(lo, x)
\* max(lo, min(hi, int(x)))
clamp_int(x, lo, hi) == Max2(lo, Min2(hi, x))
\* max(lo, min(hi, float(x))), all three in thousandths
clamp_float(x, lo, hi) == Max2(lo, Min2(hi, x))

\* the integer nearest to n/d, a tie going to the even one
Round(n, d) ==
    LET q == (2 * n + d) \div (2 * d)
    IN  IF (2 * n + d) % (2 * d) = 0 /\ q % 2 = 1 THEN q - 1 ELSE q
\* f"{x:.2f}" of a float held in thousandths: the hundredths it prints
fmt2(x) == Round(x, 10)

\* the lines a client writes, by their fields
HelloCmd == [cmd |-> "HELLO"]
ParamCmd(n, b, k, m) == [cmd |-> "PARAM", N |-> n, B |-> b, K |-> k, M |-> m]
GetCmd(k, stride, burn) == [cmd |-> "GET", K |-> k, STRIDE |-> stride, BURN |-> burn]

\* console: the "Clamp to safe ranges" block of main
console_params(in) ==
    [T |-> clamp_float(in.T, 0, 1000),
     B |-> clamp_int(in.B, -127, 127),
     KP |-> clamp_int(in.KP, 0, 255),
     M |-> clamp_int(in.M, 0, 255),
     K |-> clamp_int(in.K, 1, 2000),
     STRIDE |-> clamp_int(in.STRIDE, 1, 1000),
     BURN |-> clamp_int(in.BURN, 0, 5000)]
\* console: send("@HELLO"), send("@PARAM N=%.2f B= K= M="), send("@GET K= STRIDE= BURN=")
console_handshake(p) ==
    << HelloCmd,
       ParamCmd(fmt2(p.T), p.B, p.KP, p.M),
       GetCmd(p.K, p.STRIDE, p.BURN) >>
ConsoleDefaults ==
    [T |-> PARAM_T, B |-> PARAM_B, KP |-> PARAM_KP, M |-> PARAM_M,
     K |-> BATCH_K, STRIDE |-> BATCH_STRIDE, BURN |-> CONSOLE_BATCH_BURN]

\* dashboard: t_start = t_start field if anneal_active else t_val (hundredths)
dash_initial_t(g) == IF g.anneal_active THEN g.t_start ELSE g.t_val
\* the three writes with @GET ahead of @PARAM
dash_handshake_get_first(g) ==
    << HelloCmd,
       GetCmd(g.k_val, BATCH_STRIDE, DASH_BATCH_BURN),
       ParamCmd(Round(dash_initial_t(g), 1), PARAM_B, PARAM_KP, PARAM_M) >>
\* dashboard: the three writes of on_start
dash_handshake(g) ==
    << HelloCmd,
       ParamCmd(Round(dash_initial_t(g), 1), PARAM_B, PARAM_KP, PARAM_M),
       GetCmd(g.k_val, BATCH_STRIDE, DASH_BATCH_BURN) >>
\* the fields of the GUI as setup_ui creates them
GuiDefaults ==
    [k_val |-> 300, t_val |-> 20, anneal_active |-> FALSE, t_start |-> 35, t_end |-> 5]

\* a threshold of zero: any two temperatures count as apart
always_apart(a, b) == TRUE
\* abs(a - b) >= 0.01
far_apart(a, b) == Abs(a.n * b.d - b.n * a.d) >= a.d * b.d
\* progress = sample_count / batch_k if batch_k > 0 else 0
progress(count, k) == IF k > 0 THEN Rat(count, k) ELSE Rat(0, 1)
\* current_t = t_start + (t_end - t_start) * progress
current_t(g, count, k) ==
    LET pr == progress(count, k)
    IN  Rat(g.t_start * pr.d + (g.t_end - g.t_start) * pr.n, pr.d)
\* the ANNEALING LOGIC block: is a @PARAM due, and with which temperature
anneal(g, count, k, last) ==
    LET t == current_t(g, count, k)
    IN  [push |-> g.anneal_active /\ far_apart(t, last), t |-> t]
\* the @PARAM of the re-push
anneal_cmd(t) == ParamCmd(Round(t.n, t.d), PARAM_B, PARAM_KP, PARAM_M)
\* self.last_sent_t = -1.0
LAST_SENT_INIT == Rat(-100, 1)

\* ------------------------------------------------------------------------
\* The device: the lines it may put on the link
\* ------------------------------------------------------------------------
RECURSIVE join(_, _)
join(fields, sep) ==
    IF Len(fields) = 0 THEN << >>
    ELSE IF Len(fields) = 1 THEN fields[1]
    ELSE fields[1] \o << sep >> \o join(Tail(fields), sep)

OTag == << "O" >>
Junk == << "a", "b", "c" >>
Loss0 == << "0" >>
Noise0 == << "0", ".", "0" >>
Seed9 == << "9" >>
\* O,<tick>,<slaveIndex>,<bmask>,<loss>,<noise>,<seed>
DataLine(t, s, m) ==
    join(<< OTag, IntText(t), IntText(s), IntText(m), Loss0, Noise0, Seed9 >>, ",")
DoneLine == << "@", "D", "O", "N", "E" >>
BatchLine == << "@", "B", "A", "T", "C", "H", " ", "K", "=", "3" >>
AckLine == << "@", "O", "K" >>
MsgLine == << "h", "i" >>

\* data lines the master would not send: too few fields, or a field that is no number
ShortLines ==
    { join(<< OTag, IntText(1), IntText(0), IntText(5) >>, ","),
      join(<< OTag, IntText(1), IntText(0), IntText(5), Loss0, Noise0 >>, ",") }
BadHeadLines ==
    { join(<< OTag, Junk, IntText(0), IntText(5), Loss0, Noise0, Seed9 >>, ","),
      join(<< OTag, IntText(1), Junk, IntText(5), Loss0, Noise0, Seed9 >>, ","),
      join(<< OTag, IntText(1), IntText(0), Junk, Loss0, Noise0, Seed9 >>, ",") }
BadTailLines ==
    { join(<< OTag, IntText(1), IntText(0), IntText(5), Junk, Noise0, Seed9 >>, ","),
      join(<< OTag, IntText(1), IntText(0), IntText(5), Noise0, Noise0, Seed9 >>, ","),
      join(<< OTag, IntText(1), IntText(0), IntText(5), Loss0, Junk, Seed9 >>, ","),
      join(<< OTag, IntText(1), IntText(0), IntText(5), Loss0, Noise0, Junk >>, ",") }
ControlLines == { DoneLine, BatchLine, AckLine, MsgLine }

Slaves == 0..(NUM_SLAVES - 1)
MalformedLines == ShortLines \cup BadHeadLines \cup BadTailLines
\* feed "agg": two ticks.  Slave 0 of tick 1 may report bmask 0 or 5 and the
\* slaves of tick 1 report in any order, any number of times; the slaves of
\* tick 2 report in index order
AggTick1 ==
    { DataLine(1, 0, 0), DataLine(1, 0, 5) }
    \cup { DataLine(1, s, 0) : s \in Slaves \ {0} }
AggTick2 == [k \in 1..NUM_SLAVES |-> DataLine(2, k - 1, IF k = 1 THEN 5 ELSE 0)]
AggLines(d) ==
    AggTick1 \cup MalformedLines \cup ControlLines
    \cup (IF d.high < NUM_SLAVES THEN { AggTick2[d.high + 1] } ELSE {})
\* feed "ret": tick 0 (slaves 0 and 1 before the filler ticks; slaves 2, 3, 0,
\* 1 in that order once CLEANUP_ABOVE - 1 filler ticks are out), filler ticks 1..MaxFill in
\* ascending order with one record each, and tick 1000 whose slaves report in
\* the order 0, 2, 3, 7 (an index out of range), 1
FillLines == [n \in 1..(MaxFill + 1) |-> DataLine(n, 0, 0)]
HighUnits == << 0, 2, 3, 7, 1 >>
HighLines == [k \in 1..Len(HighUnits) |-> DataLine(1000, HighUnits[k], 0)]
LowEarly == { DataLine(0, s, 0) : s \in {0, 1} }
LateUnits == << 2, 3, 0, 1 >>
LowLate == [k \in 1..Len(LateUnits) |-> DataLine(0, LateUnits[k], 0)]
RetExtra ==
    { DoneLine, MsgLine,
      join(<< OTag, IntText(0), IntText(0), Junk, Loss0, Noise0, Seed9 >>, ",") }
RetLines(d) ==
    (IF d.fill = 0 THEN LowEarly
     ELSE IF d.fill >= CLEANUP_ABOVE - 1 /\ d.low < Len(LateUnits)
     THEN { LowLate[d.low + 1] } ELSE {})
    \cup (IF d.fill < MaxFill THEN { FillLines[d.fill + 1] } ELSE {})
    \cup (IF d.fill >= CLEANUP_ABOVE - 1 /\ d.high < Len(HighUnits)
          THEN { HighLines[d.high + 1] } ELSE {})
    \cup RetExtra
\* feed "timing": one tick, then silence
TimingLines ==
    { DataLine(1, s, 0) : s \in Slaves } \cup { DoneLine, MsgLine, BatchLine }
    \cup { join(<< OTag, IntText(1), IntText(0), Junk, Loss0, Noise0, Seed9 >>, ",") }

\* feed "sess": ticks 1..MaxSessTicks, each slave by slave in index order
SessLines ==
    [n \in 1..(NUM_SLAVES * MaxSessTicks) |->
        DataLine((n - 1) \div NUM_SLAVES + 1, (n - 1) % NUM_SLAVES, 0)]
SessExtra ==
    { DoneLine, MsgLine,
      join(<< OTag, IntText(1), IntText(0), Junk, Loss0, Noise0, Seed9 >>, ",") }
SessFeed(d) ==
    (IF d.fill < Len(SessLines) THEN { SessLines[d.fill + 1] } ELSE {})
    \cup SessExtra

DevLines(f, d) ==
    IF f = "agg" THEN AggLines(d)
    ELSE IF f = "ret" THEN RetLines(d)
    ELSE IF f = "sess" THEN SessFeed(d)
    ELSE TimingLines

\* the device's position after it has emitted line
DevAfter(f, d, line) ==
    IF f = "agg"
    THEN IF d.high < NUM_SLAVES /\ line = AggTick2[d.high + 1]
         THEN [d EXCEPT !.high = d.high + 1] ELSE d
    ELSE IF f = "ret"
    THEN IF d.fill < MaxFill /\ line = FillLines[d.fill + 1]
         THEN [d EXCEPT !.fill = d.fill + 1]
         ELSE IF d.high < Len(HighUnits) /\ line = HighLines[d.high + 1]
         THEN [d EXCEPT !.high = d.high + 1]
         ELSE IF /\ d.fill >= CLEANUP_ABOVE - 1 /\ d.low < Len(LateUnits)
                 /\ line = LowLate[d.low + 1]
         THEN [d EXCEPT !.low = d.low + 1]
         ELSE d
    ELSE IF f = "sess"
    THEN IF d.fill < Len(SessLines) /\ line = SessLines[d.fill + 1]
         THEN [d EXCEPT !.fill = d.fill + 1] ELSE d
    ELSE d

\* every line of every feed
AllLines ==
    AggTick1 \cup { AggTick2[k] : k \in 1..NUM_SLAVES } \cup MalformedLines
    \cup ControlLines \cup { FillLines[n] : n \in 1..(MaxFill + 1) }
    \cup { HighLines[k] : k \in 1..Len(HighUnits) } \cup LowEarly
    \cup { LowLate[k] : k \in 1..Len(LateUnits) }
    \cup RetExtra
    \cup TimingLines
    \cup { SessLines[n] : n \in 1..Len(SessLines) } \cup SessExtra

\* ------------------------------------------------------------------------
\* State
\* ------------------------------------------------------------------------
VARIABLES
    client,        \* "console" or "dashboard": which program runs
    feed,          \* which lines the device may send in this run
    dev,           \* the device's position in its feed
    pc,            \* console: "listening" (the while loop) or "done"
    ser,           \* the link handle: "None", "open" or "closed"
    running,       \* dashboard: self.running
    now,           \* console: time.time(), whole seconds since the loop began
    last_rx_time,  \* console: last_rx_time
    stop_reason,   \* console: which message ended the loop
    tick_buffer,   \* tick -> (slave index -> record)
    best_score, best_bits, best_tick,
    sample_count, all_samples,   \* dashboard
    history,       \* console: the samples scored so far, in order (what it printed)
    latest,        \* per tick in the buffer, the last bitmask received per slave
    lost,          \* ticks the cleanup removed -> the slaves they held
    out,           \* what the last step read and produced
    inputs,        \* console: the values typed at the prompts; dashboard: the GUI fields
    sent,          \* the commands written on the link since it was opened
    last_sent_t,   \* dashboard: self.last_sent_t
    batch_k,       \* dashboard: self.batch_k
    stale,         \* session feed: tick -> slaves whose held record predates the last on_stop
    overlap,       \* session feed: some on_start opened a link while self.ser held an open one
    upd            \* dashboard, callbacks on their own thread: where update() stands, its locals

vars == << client, feed, dev, pc, ser, running, now, last_rx_time, stop_reason,
           tick_buffer, best_score, best_bits, best_tick, sample_count,
           all_samples, history, latest, lost, out, inputs, sent, last_sent_t,
           batch_k, stale, overlap, upd >>
ctl == << inputs, sent, last_sent_t, batch_k, stale, overlap, upd >>
data == << tick_buffer, best_score, best_bits, best_tick, sample_count, all_samples >>

NoOut == [cls |-> "other", sample |-> None]
Out(c) == [cls |-> c, sample |-> None]

\* ------------------------------------------------------------------------
\* The tick buffer
\* ------------------------------------------------------------------------
Min(S) == CHOOSE x \in S : \A y \in S : x <= y
Put(f, k, v) == [x \in (DOMAIN f) \cup {k} |-> IF x = k THEN v ELSE f[x]]

\* store as a setdefault would: the first record of a slave is kept
store_first(buf, tick, sidx, v) ==
    IF tick \in DOMAIN buf /\ sidx \in DOMAIN buf[tick] THEN buf
    ELSE Put(buf, tick, Put(IF tick \in DOMAIN buf THEN buf[tick] ELSE << >>, sidx, v))

\* if tick not in tick_buffer: tick_buffer[tick] = {}
\* tick_buffer[tick][sidx] = v
store(buf, tick, sidx, v) ==
    Put(buf, tick, Put(IF tick \in DOMAIN buf THEN buf[tick] ELSE << >>, sidx, v))

\* len(tick_buffer[tick]) >= NUM_SLAVES
is_full(entry) == Cardinality(DOMAIN entry) >= NUM_SLAVES

\* the vector as entry.get(s, (0,)) would build it: a missing slave reads as 0
console_vec_padded(entry) ==
    [k \in 1..NUM_SLAVES |->
        bits_from_bmask(IF k - 1 \in DOMAIN entry THEN entry[k - 1][1] ELSE 0,
                        BITS_PER_SLAVE)]

\* console: for s in range(NUM_SLAVES): if s not in entry: break; vec.append(...)
console_vec(entry) ==
    LET missing == {s \in Slaves : s \notin DOMAIN entry}
        n == IF missing = {} THEN NUM_SLAVES ELSE Min(missing)
    IN  [k \in 1..n |-> bits_from_bmask(entry[k - 1][1], BITS_PER_SLAVE)]

\* dashboard: [bits_from_bmask(entry[s]) for s in range(NUM_SLAVES) if s in entry]
DEFAULT_WIDTH == 4
RECURSIVE DashVecFrom(_, _)
DashVecFrom(entry, s) ==
    IF s >= NUM_SLAVES THEN << >>
    ELSE (IF s \in DOMAIN entry THEN << bits_from_bmask(entry[s], DEFAULT_WIDTH) >>
          ELSE << >>) \o DashVecFrom(entry, s + 1)
dash_vec(entry) == DashVecFrom(entry, 0)

\* the keys of a slice that stops one short: 21 ticks stay
cleanup_keys_keep_one_more(buf) ==
    {t \in DOMAIN buf : Cardinality({u \in DOMAIN buf : u > t}) > CLEANUP_KEEP}
\* sorted(tick_buffer.keys())[:-20]
cleanup_keys(buf) ==
    {t \in DOMAIN buf : Cardinality({u \in DOMAIN buf : u > t}) >= CLEANUP_KEEP}
\* len(tick_buffer) > 50
cleanup_due(buf) == Cardinality(DOMAIN buf) > CLEANUP_ABOVE
\* for old in ...: tick_buffer.pop(old, None)
pop_all(buf, olds) == [t \in (DOMAIN buf) \ olds |-> buf[t]]
\* a cleanup that pops from a copy: nothing leaves the buffer
cleanup_nothing(buf) == buf
cleanup(buf) == IF cleanup_due(buf) THEN pop_all(buf, cleanup_keys(buf)) ELSE buf

\* the comparison as >=, and as a test that lets every sample in
console_improves_ge(score, best) == score >= best
dash_improves_any(score, best) == TRUE

\* if score > best_score
console_improves(score, best) == score > best
dash_improves(score, best) == score > best

\* ------------------------------------------------------------------------
\* Decoding a data line
\* ------------------------------------------------------------------------
NoRecord == [ok |-> FALSE, tick |-> 0, sidx |-> 0, bmask |-> 0, rest |-> << >>]

\* the console's decoder with only the three fields it uses converted
console_parse_lax(line) ==
    LET parts == split(line, ",")
    IN  IF Len(parts) < 7 THEN NoRecord
        ELSE LET tick == ParseInt(parts[2])
                 sidx == ParseInt(parts[3])
                 bmask == ParseInt(parts[4])
             IN  IF tick.ok /\ sidx.ok /\ bmask.ok
                 THEN [ok |-> TRUE, tick |-> tick.v, sidx |-> sidx.v, bmask |-> bmask.v,
                       rest |-> << 0, 0, 0 >>]
                 ELSE NoRecord

\* console: parts = line.split(","); len(parts) < 7 -> continue;
\* tick, sidx, bmask, loss, seed = int(...), noise = float(...) in one try
console_parse(line) ==
    LET parts == split(line, ",")
    IN  IF Len(parts) < 7 THEN NoRecord
        ELSE LET tick == ParseInt(parts[2])
                 sidx == ParseInt(parts[3])
                 bmask == ParseInt(parts[4])
                 loss == ParseInt(parts[5])
                 noise == ParseFloat(parts[6])
                 seed == ParseInt(parts[7])
             IN  IF tick.ok /\ sidx.ok /\ bmask.ok /\ loss.ok /\ noise.ok /\ seed.ok
                 THEN [ok |-> TRUE, tick |-> tick.v, sidx |-> sidx.v, bmask |-> bmask.v,
                       rest |-> << loss.v, noise.v, seed.v >>]
                 ELSE NoRecord

\* dashboard: parts = line.split(","); if len(parts) >= 7: try:
\* tick, sidx, bmask = int(parts[1]), int(parts[2]), int(parts[3])
dash_parse(line) ==
    LET parts == split(line, ",")
    IN  IF Len(parts) >= 7
        THEN LET tick == ParseInt(parts[2])
                 sidx == ParseInt(parts[3])
                 bmask == ParseInt(parts[4])
             IN  IF tick.ok /\ sidx.ok /\ bmask.ok
                 THEN [ok |-> TRUE, tick |-> tick.v, sidx |-> sidx.v, bmask |-> bmask.v,
                       rest |-> << >>]
                 ELSE NoRecord
        ELSE NoRecord

\* ------------------------------------------------------------------------
\* One accepted record: store, score when complete, cleanup
\* ------------------------------------------------------------------------
\* console, lines 218-257
console_ingest(buf, bscore, bbits, btick, r) ==
    LET buf1 == store(buf, r.tick, r.sidx, << r.bmask >> \o r.rest)
        entry == buf1[r.tick]
        vec == console_vec(entry)
        complete == is_full(entry) /\ Len(vec) = NUM_SLAVES
        bits == concatenate(vec)
        score == maxcut_score(bits, EDGES)
        better == complete /\ console_improves(score, bscore)
    IN  [buf |-> IF is_full(entry) THEN cleanup(buf1) ELSE buf1,
         best_score |-> IF better THEN score ELSE bscore,
         best_bits |-> IF better THEN Some(bits) ELSE bbits,
         best_tick |-> IF better THEN Some(r.tick) ELSE btick,
         sample |-> IF complete
                    THEN Some([tick |-> r.tick, score |-> score, bits |-> bits,
                               sidx |-> r.sidx])
                    ELSE None,
         popped |-> IF is_full(entry) /\ cleanup_due(buf1) THEN cleanup_keys(buf1)
                    ELSE {}]

\* dashboard, lines 342-373
dash_ingest(buf, bscore, bbits, count, samples, r) ==
    LET buf1 == store(buf, r.tick, r.sidx, r.bmask)
        entry == buf1[r.tick]
        vec == dash_vec(entry)
        complete == is_full(entry) /\ Len(vec) = NUM_SLAVES
        bits == concatenate(vec)
        score == maxcut_score(bits, EDGES)
        better == complete /\ dash_improves(score, bscore)
    IN  [buf |-> IF is_full(entry) THEN cleanup(buf1) ELSE buf1,
         best_score |-> IF better THEN score ELSE bscore,
         best_bits |-> IF better THEN Some(bitstr(bits)) ELSE bbits,
         sample_count |-> IF complete THEN count + 1 ELSE count,
         all_samples |-> IF complete
                         THEN Append(samples, [tick |-> r.tick, score |-> score,
                                               bits |-> bitstr(bits)])
                         ELSE samples,
         sample |-> IF complete
                    THEN Some([tick |-> r.tick, score |-> score, bits |-> bits,
                               sidx |-> r.sidx])
                    ELSE None,
         popped |-> IF is_full(entry) /\ cleanup_due(buf1) THEN cleanup_keys(buf1)
                    ELSE {}]

\* ------------------------------------------------------------------------
\* What the last step read, by the line grammar (not by either client's decoder)
\* ------------------------------------------------------------------------
IsDataLine(line) == startswith(line, << "O", "," >>)
WellFormed(line) ==
    LET parts == split(line, ",")
    IN  /\ Len(parts) >= 7
        /\ \A i \in {2, 3, 4, 5, 7} : ParseInt(parts[i]).ok
        /\ ParseFloat(parts[6]).ok
LineClass(line) ==
    IF startswith(line, << "@", "D", "O", "N", "E" >>) THEN "done"
    ELSE IF ~IsDataLine(line) THEN "other"
    ELSE IF WellFormed(line) THEN "record" ELSE "malformed"

\* the decoders and the grammar, tabulated over the lines of the feeds
ConsoleParsed == [line \in AllLines |-> console_parse(line)]
DashParsed == [line \in AllLines |-> dash_parse(line)]
Classes == [line \in AllLines |-> LineClass(line)]
IsBatch == [line \in AllLines |-> startswith(line, << "@", "B", "A", "T", "C", "H" >>)]
\* a test for @DONE that no line passes
IsDoneNever == [line \in AllLines |-> FALSE]
IsDone == [line \in AllLines |-> startswith(line, << "@", "D", "O", "N", "E" >>)]
IsData == [line \in AllLines |-> startswith(line, << "O", "," >>)]

\* the bitmasks received for the ticks now in the buffer, after record r
NotedAll(lat, r) ==
    Put(lat, r.tick,
        Put(IF r.tick \in DOMAIN lat THEN lat[r.tick] ELSE << >>, r.sidx, r.bmask))
Noted(lat, r, popped) ==
    [t \in (DOMAIN NotedAll(lat, r)) \ popped |-> NotedAll(lat, r)[t]]
\* the ticks the cleanup removed, each with the slaves it held when removed
Forgotten(lst, lat, r, popped) ==
    [t \in (DOMAIN lst) \cup popped |->
        IF t \in popped /\ t \in DOMAIN NotedAll(lat, r)
        THEN DOMAIN NotedAll(lat, r)[t]
        ELSE IF t \in DOMAIN lst THEN lst[t] ELSE {}]

\* ------------------------------------------------------------------------
\* Initial states
\* ------------------------------------------------------------------------
\* self.batch_k = 300
DASH_BATCH_K_INIT == 300
\* update() is not running
UpdIdle == [at |-> "idle", r |-> NoRecord, count |-> 0, sample |-> None]
\* the state with the console at position p of main, the link in state s,
\* the typed values in and the commands snt written
InitAt(c, f, p, s, in, snt) ==
    /\ client = c
    /\ feed = f
    /\ dev = [fill |-> 0, high |-> 0, low |-> 0]
    /\ pc = p
    /\ ser = s
    /\ inputs = in
    /\ sent = snt
    /\ last_sent_t = LAST_SENT_INIT
    /\ batch_k = DASH_BATCH_K_INIT
    /\ stale = << >>
    /\ overlap = FALSE
    /\ upd = UpdIdle
    /\ running = FALSE
    /\ now = 0
    /\ last_rx_time = 0
    /\ stop_reason = "none"
    /\ tick_buffer = << >>
    /\ best_score = IF c = "console" THEN CONSOLE_BEST_INIT ELSE DASH_BEST_INIT
    /\ best_bits = None
    /\ best_tick = None
    /\ sample_count = 0
    /\ all_samples = << >>
    /\ history = << >>
    /\ latest = << >>
    /\ lost = << >>
    /\ out = NoOut

\* the console as it enters its loop with the default settings; the dashboard
\* as __init__ and setup_ui leave it
InitFor(c, f) ==
    IF c = "console"
    THEN InitAt(c, f, "listening", "open", ConsoleDefaults,
                console_handshake(console_params(ConsoleDefaults)))
    ELSE InitAt(c, f, "gui", "None", GuiDefaults, << >>)

Init == \E c \in {"console", "dashboard"} : InitFor(c, "agg")
InitRetention == \E c \in {"console", "dashboard"} : InitFor(c, "ret")
InitTimeout == InitFor("console", "timing")

\* what the user may type at the console's prompts: the defaults with one
\* value replaced, and every value below or above its range at once
TypedValues ==
    [T |-> {-500, 0, 204, 256, 1000, 1500},
     B |-> {-200, -127, 0, 127, 200},
     KP |-> {-1, 0, 255, 256},
     M |-> {-1, 0, 255, 256},
     K |-> {0, 1, 2000, 2001},
     STRIDE |-> {0, 1, 1000, 1001},
     BURN |-> {-1, 0, 5000, 5001}]
ConsoleInputs ==
    UNION { { [ConsoleDefaults EXCEPT ![f] = v] : v \in TypedValues[f] } :
            f \in DOMAIN TypedValues }
    \cup { [T |-> -500, B |-> -200, KP |-> -1, M |-> -1, K |-> 0, STRIDE |-> 0,
            BURN |-> -1],
           [T |-> 1500, B |-> 200, KP |-> 256, M |-> 256, K |-> 2001,
            STRIDE |-> 1001, BURN |-> 5001] }
\* what the user may set in the GUI fields
GuiChoices ==
    { GuiDefaults,
      [k_val |-> 2, t_val |-> 20, anneal_active |-> TRUE, t_start |-> 35, t_end |-> 34],
      [k_val |-> 1, t_val |-> 20, anneal_active |-> TRUE, t_start |-> 35, t_end |-> 5],
      [k_val |-> 0, t_val |-> 150, anneal_active |-> FALSE, t_start |-> 35, t_end |-> 5],
      [k_val |-> 2001, t_val |-> -10, anneal_active |-> FALSE, t_start |-> 35, t_end |-> 5] }

\* the session feed: the console before its prompts are answered, the
\* dashboard before its first click
InitSession ==
    \/ InitFor("dashboard", "sess")
    \/ \E in \in ConsoleInputs : InitAt("console", "sess", "start", "None", in, << >>)

\* what the link may do: a close that raises, writes that raise
CloseResult(f) == IF f = "sess" THEN {"closed", "close_failed"} ELSE {"closed"}
Writes(f) == IF f = "sess" THEN 0..3 ELSE {3}
PushWrites(f) == IF f = "sess" THEN BOOLEAN ELSE {TRUE}

\* ------------------------------------------------------------------------
\* Console: one iteration of the while loop of main
\* ------------------------------------------------------------------------
\* the clock of a run stops at Horizon
Horizon == IF feed = "timing" THEN MaxRxTime + READ_TIMEOUT_S + 1 ELSE MaxRxTime

\* the stamp taken without the "if line:" test
rx_stamp_always(line, t, last) == t

\* if line: last_rx_time = time.time()
rx_stamp(line, t, last) == IF line # << >> THEN t ELSE last
\* (time.time() - last_rx_time) > READ_TIMEOUT_S
timed_out(t, last) == (t - last) > READ_TIMEOUT_S

\* break, then finally: try: ser.close() except Exception: pass
ConsoleStop(reason) ==
    /\ pc' = "done"
    /\ stop_reason' = reason
    /\ ser' \in CloseResult(feed)

\* the check at the end of an iteration
ConsoleTimeoutCheck ==
    IF timed_out(now', last_rx_time')
    THEN ConsoleStop("timeout")
    ELSE UNCHANGED << pc, stop_reason, ser >>

\* readline() returned a line after d seconds
ConsoleReadLine(line, d) ==
    /\ client = "console"
    /\ pc = "listening"
    /\ now + d <= MaxRxTime
    /\ now' = now + d
    /\ last_rx_time' = rx_stamp(line, now', last_rx_time)
    /\ dev' = DevAfter(feed, dev, line)
    /\ UNCHANGED << client, feed, running, sample_count, all_samples >>
    /\ UNCHANGED ctl
    /\ IF IsBatch[line]
       THEN \* continue
            /\ UNCHANGED << pc, stop_reason, ser, tick_buffer, best_score, best_bits,
                            best_tick, history, latest, lost >>
            /\ out' = NoOut
       ELSE IF IsDone[line]
       THEN \* break
            /\ ConsoleStop("done")
            /\ UNCHANGED << tick_buffer, best_score, best_bits, best_tick, history,
                            latest, lost >>
            /\ out' = Out(Classes[line])
       ELSE IF IsData[line]
       THEN LET r == ConsoleParsed[line]
                g == console_ingest(tick_buffer, best_score, best_bits, best_tick, r)
            IN  IF ~r.ok
                THEN \* continue
                     /\ UNCHANGED << pc, stop_reason, ser, tick_buffer, best_score,
                                     best_bits, best_tick, history, latest, lost >>
                     /\ out' = [cls |-> Classes[line], sample |-> None]
                ELSE /\ g.sample # None => Len(history) < MaxSamples
                     /\ tick_buffer' = g.buf
                     /\ best_score' = g.best_score
                     /\ best_bits' = g.best_bits
                     /\ best_tick' = g.best_tick
                     /\ history' = history \o g.sample
                     /\ latest' = Noted(latest, r, g.popped)
                     /\ lost' = Forgotten(lost, latest, r, g.popped)
                     /\ out' = [cls |-> Classes[line], sample |-> g.sample]
                     /\ ConsoleTimeoutCheck
       ELSE /\ UNCHANGED << tick_buffer, best_score, best_bits, best_tick, history,
                            latest, lost >>
            /\ out' = Out(Classes[line])
            /\ ConsoleTimeoutCheck

\* readline() gave nothing within its one-second timeout
ConsoleReadEmpty ==
    /\ client = "console"
    /\ pc = "listening"
    /\ now + 1 <= Horizon
    /\ now' = now + 1
    /\ last_rx_time' = rx_stamp(<< >>, now', last_rx_time)
    /\ ConsoleTimeoutCheck
    /\ out' = NoOut
    /\ UNCHANGED << client, feed, dev, running, tick_buffer, best_score, best_bits,
                    best_tick, sample_count, all_samples, history, latest, lost >>
    /\ UNCHANGED ctl

\* Ctrl+C: except KeyboardInterrupt, then finally: ser.close()
ConsoleInterrupt ==
    /\ client = "console"
    /\ pc = "listening"
    /\ ConsoleStop("interrupt")
    /\ out' = Out("interrupt")
    /\ UNCHANGED << client, feed, dev, running, now, last_rx_time, tick_buffer,
                    best_score, best_bits, best_tick, sample_count, all_samples,
                    history, latest, lost >>
    /\ UNCHANGED ctl

\* the readline of the loop raises (the link is lost): no except clause takes
\* it, finally closes the link and main ends with the exception
ConsoleReadFail ==
    /\ client = "console"
    /\ pc = "listening"
    /\ ConsoleStop("error")
    /\ out' = Out("readfail")
    /\ UNCHANGED << client, feed, dev, running, now, last_rx_time, tick_buffer,
                    best_score, best_bits, best_tick, sample_count, all_samples,
                    history, latest, lost >>
    /\ UNCHANGED ctl

\* main up to the loop: the values typed are clamped, the link is opened
\* (return if that fails), the three commands are sent (send is outside any
\* try: a write that raises ends main with the link open), the loop begins
ConsoleStart(opens) ==
    /\ client = "console"
    /\ pc = "start"
    /\ IF ~opens
       THEN /\ pc' = "done"
            /\ stop_reason' = "noport"
            /\ UNCHANGED << ser, sent >>
       ELSE \E w \in Writes(feed) :
               /\ ser' = "open"
               /\ sent' = SubSeq(console_handshake(console_params(inputs)), 1, w)
               /\ pc' = IF w = 3 THEN "listening" ELSE "crashed"
               /\ stop_reason' = IF w = 3 THEN stop_reason ELSE "error"
    /\ last_rx_time' = now
    /\ out' = Out("start")
    /\ UNCHANGED << client, feed, dev, running, now, tick_buffer, best_score,
                    best_bits, best_tick, sample_count, all_samples, history,
                    latest, lost, inputs, last_sent_t, batch_k, stale, overlap, upd >>

\* ------------------------------------------------------------------------
\* Dashboard: the callbacks and update()
\* ------------------------------------------------------------------------
\* on_start past its first line: open the link (an exception leaves the
\* state as it was), write the three commands, self.running = True,
\* self.batch_k = k; a write that raises ends the callback where it stands
StartEffect(opens) ==
    IF ~opens
    THEN UNCHANGED << ser, running, sent, last_sent_t, batch_k >>
    ELSE \E w \in Writes(feed) :
            /\ ser' = "open"
            /\ sent' = SubSeq(dash_handshake(inputs), 1, w)
            /\ last_sent_t' = IF w >= 1 THEN Rat(dash_initial_t(inputs), 1)
                               ELSE last_sent_t
            /\ running' = (w = 3)
            /\ batch_k' = IF w = 3 THEN inputs.k_val ELSE batch_k

\* the records held when on_stop runs
Held(buf) == [t \in DOMAIN buf |-> DOMAIN buf[t]]
StaleAt(buf) == IF feed = "sess" THEN Held(buf) ELSE stale
\* the held records that predate the last on_stop, after record r is stored
\* and the ticks in popped are removed
Fresh(st, r, popped) ==
    [t \in (DOMAIN st) \ popped |-> IF t = r.tick THEN st[t] \ {r.sidx} ELSE st[t]]

\* the link after on_stop's "if self.ser: self.ser.close(); self.ser = None":
\* a close that raises leaves the callback before self.ser = None
AfterClose(s) ==
    IF s = "None" THEN {"None"}
    ELSE {"None"} \cup (IF "close_failed" \in CloseResult(feed) THEN {s} ELSE {})

\* on_clear
ClearEffect ==
    /\ tick_buffer' = << >>
    /\ best_score' = DASH_BEST_INIT
    /\ best_bits' = None
    /\ sample_count' = 0
    /\ all_samples' = << >>
    /\ latest' = << >>
    /\ stale' = << >>

\* serial.Serial(port, ...) returned a new link while self.ser still held a
\* link that had been opened and not closed
OverlapAt(opens) ==
    IF feed = "sess" THEN overlap \/ (~running /\ opens /\ ser = "open") ELSE overlap

on_start(opens) ==
    /\ client = "dashboard"
    /\ pc = "gui"
    /\ IF running
       THEN UNCHANGED << ser, running, sent, last_sent_t, batch_k >>
       ELSE StartEffect(opens)
    /\ overlap' = OverlapAt(opens)
    /\ out' = Out("start")
    /\ UNCHANGED << client, feed, dev, pc, now, last_rx_time, stop_reason,
                    tick_buffer, best_score, best_bits, best_tick, sample_count,
                    all_samples, history, latest, lost, inputs, stale, upd >>

on_stop ==
    /\ client = "dashboard"
    /\ pc = "gui"
    /\ running' = FALSE
    /\ ser' \in AfterClose(ser)
    /\ stale' = StaleAt(tick_buffer)
    /\ out' = Out("stop")
    /\ UNCHANGED << client, feed, dev, pc, now, last_rx_time, stop_reason,
                    tick_buffer, best_score, best_bits, best_tick, sample_count,
                    all_samples, history, latest, lost, inputs, sent, last_sent_t,
                    batch_k, overlap, upd >>

on_clear ==
    /\ client = "dashboard"
    /\ pc = "gui"
    /\ ClearEffect
    /\ out' = Out("clear")
    /\ UNCHANGED << client, feed, dev, pc, ser, running, now, last_rx_time,
                    stop_reason, best_tick, history, lost, inputs, sent, last_sent_t,
                    batch_k, overlap, upd >>

\* on_restart: on_stop(); on_clear(); on_start().  A close that raises in
\* on_stop ends the callback there.
on_restart(opens) ==
    /\ client = "dashboard"
    /\ pc = "gui"
    /\ UNCHANGED << client, feed, dev, pc, now, last_rx_time, stop_reason,
                    best_tick, history, lost, inputs, overlap, upd >>
    /\ \/ /\ ClearEffect
          /\ IF opens THEN StartEffect(opens)
             ELSE /\ ser' = "None"
                  /\ running' = FALSE
                  /\ UNCHANGED << sent, last_sent_t, batch_k >>
          /\ out' = Out("restart")
       \/ /\ ser # "None"
          /\ "close_failed" \in CloseResult(feed)
          /\ running' = FALSE
          /\ stale' = StaleAt(tick_buffer)
          /\ out' = Out("stop")
          /\ UNCHANGED << ser, sent, last_sent_t, batch_k, tick_buffer, best_score,
                          best_bits, sample_count, all_samples, latest >>

\* the user edits the GUI fields
GuiEdit ==
    /\ client = "dashboard"
    /\ pc = "gui"
    /\ inputs' \in GuiChoices \ {inputs}
    /\ out' = Out("config")
    /\ UNCHANGED << client, feed, dev, pc, ser, running, now, last_rx_time,
                    stop_reason, tick_buffer, best_score, best_bits, best_tick,
                    sample_count, all_samples, history, latest, lost, sent,
                    last_sent_t, batch_k, stale, overlap, upd >>

\* update(): one line of "while self.ser.in_waiting > 0"
DashReadLine(line) ==
    /\ client = "dashboard"
    /\ pc = "gui"
    /\ running
    /\ ser = "open"
    /\ feed = "timing" => now <= MaxRxTime
    /\ dev' = DevAfter(feed, dev, line)
    /\ UNCHANGED << client, feed, pc, ser, now, last_rx_time, stop_reason, best_tick,
                    history, inputs, batch_k, overlap, upd >>
    /\ IF IsDone[line]
       THEN /\ running' = FALSE
            /\ UNCHANGED << tick_buffer, best_score, best_bits, sample_count,
                            all_samples, latest, lost, sent, last_sent_t, stale >>
            /\ out' = Out(Classes[line])
       ELSE IF IsData[line]
       THEN LET r == DashParsed[line]
                g == dash_ingest(tick_buffer, best_score, best_bits, sample_count,
                                 all_samples, r)
                a == anneal(inputs, g.sample_count, batch_k, last_sent_t)
            IN  IF ~r.ok
                THEN /\ UNCHANGED << running, tick_buffer, best_score, best_bits,
                                     sample_count, all_samples, latest, lost, sent,
                                     last_sent_t, stale >>
                     /\ out' = [cls |-> Classes[line], sample |-> None]
                ELSE /\ g.sample # None => Len(all_samples) < MaxSamples
                     /\ tick_buffer' = g.buf
                     /\ best_score' = g.best_score
                     /\ best_bits' = g.best_bits
                     /\ sample_count' = g.sample_count
                     /\ all_samples' = g.all_samples
                     /\ latest' = Noted(latest, r, g.popped)
                     /\ lost' = Forgotten(lost, latest, r, g.popped)
                     /\ stale' = Fresh(stale, r, g.popped)
                     /\ out' = [cls |-> Classes[line], sample |-> g.sample]
                     /\ UNCHANGED running
                     /\ IF a.push
                        THEN \E wok \in PushWrites(feed) :
                                IF wok
                                THEN /\ sent' = Append(sent, anneal_cmd(a.t))
                                     /\ last_sent_t' = a.t
                                ELSE UNCHANGED << sent, last_sent_t >>
                        ELSE UNCHANGED << sent, last_sent_t >>
       ELSE /\ UNCHANGED << running, tick_buffer, best_score, best_bits,
                            sample_count, all_samples, latest, lost, sent,
                            last_sent_t, stale >>
            /\ out' = Out(Classes[line])

\* update(): the link fails under a read.  readline() raising is taken by
\* "except: continue" and the loop asks in_waiting again; in_waiting raising
\* is outside the try and ends update() and run() with the exception
DashReadFail(where) ==
    /\ client = "dashboard"
    /\ pc = "gui"
    /\ running
    /\ ser = "open"
    /\ pc' = IF where = "in_waiting" THEN "crashed" ELSE pc
    /\ out' = Out("readfail")
    /\ UNCHANGED << client, feed, dev, ser, running, now, last_rx_time, stop_reason,
                    tick_buffer, best_score, best_bits, best_tick, sample_count,
                    all_samples, history, latest, lost >>
    /\ UNCHANGED ctl

\* a frame of run() in which update() finds in_waiting = 0: the while loop
\* is not entered, only the progress display is refreshed, a second passes
DashIdleFrame ==
    /\ client = "dashboard"
    /\ pc = "gui"
    /\ running
    /\ ser = "open"
    /\ now + 1 <= Horizon
    /\ now' = now + 1
    /\ out' = NoOut
    /\ UNCHANGED << client, feed, dev, pc, ser, running, last_rx_time, stop_reason,
                    tick_buffer, best_score, best_bits, best_tick, sample_count,
                    all_samples, history, latest, lost >>
    /\ UNCHANGED ctl

\* ------------------------------------------------------------------------
\* Dashboard: update() statement by statement, the callbacks on a thread of
\* their own running between any two of its steps
\* ------------------------------------------------------------------------
\* what no step of update() touches
RaceFixed ==
    UNCHANGED << client, feed, now, last_rx_time, stop_reason, best_tick, history,
                 latest, lost, inputs, sent, last_sent_t, batch_k, stale, overlap >>
\* the statement raised inside "try: ... except: pass": back to the while test
RaceSkip ==
    /\ upd' = [UpdIdle EXCEPT !.at = "waiting"]
    /\ UNCHANGED << tick_buffer, best_score, best_bits, sample_count, all_samples >>

\* if not self.running or not self.ser: return
RaceCheck ==
    /\ client = "dashboard"
    /\ pc = "gui"
    /\ upd.at = "idle"
    /\ running
    /\ ser # "None"
    /\ upd' = [UpdIdle EXCEPT !.at = "waiting"]
    /\ out' = NoOut
    /\ RaceFixed
    /\ UNCHANGED << dev, pc, ser, running, tick_buffer, best_score, best_bits,
                    sample_count, all_samples >>

\* while self.ser.in_waiting > 0: on None the attribute access raises, outside
\* every try, and the exception leaves update() and run()
RaceWaiting(more) ==
    /\ client = "dashboard"
    /\ pc = "gui"
    /\ upd.at = "waiting"
    /\ IF ser = "None"
       THEN /\ pc' = "crashed"
            /\ upd' = [UpdIdle EXCEPT !.at = "crashed"]
       ELSE /\ pc' = pc
            /\ upd' = [UpdIdle EXCEPT !.at = IF more THEN "read" ELSE "idle"]
    /\ out' = NoOut
    /\ RaceFixed
    /\ UNCHANGED << dev, ser, running, tick_buffer, best_score, best_bits,
                    sample_count, all_samples >>

\* line = self.ser.readline()... in "try: ... except: continue", then the
\* tests on the line up to the three int() conversions
RaceReadline(line) ==
    /\ client = "dashboard"
    /\ pc = "gui"
    /\ upd.at = "read"
    /\ IF ser = "None"
       THEN /\ upd' = [UpdIdle EXCEPT !.at = "waiting"]
            /\ UNCHANGED << dev, running >>
       ELSE /\ dev' = DevAfter(feed, dev, line)
            /\ running' = IF IsDone[line] THEN FALSE ELSE running
            /\ upd' = IF IsDone[line] THEN UpdIdle
                       ELSE IF IsData[line] /\ DashParsed[line].ok
                       THEN [UpdIdle EXCEPT !.at = "entry", !.r = DashParsed[line]]
                       ELSE [UpdIdle EXCEPT !.at = "waiting"]
    /\ out' = NoOut
    /\ RaceFixed
    /\ UNCHANGED << pc, ser, tick_buffer, best_score, best_bits, sample_count,
                    all_samples >>

\* if tick not in self.tick_buffer: self.tick_buffer[tick] = {}
RaceOpenEntry ==
    /\ client = "dashboard"
    /\ pc = "gui"
    /\ upd.at = "entry"
    /\ tick_buffer' = IF upd.r.tick \in DOMAIN tick_buffer THEN tick_buffer
                       ELSE Put(tick_buffer, upd.r.tick, << >>)
    /\ upd' = [upd EXCEPT !.at = "put"]
    /\ out' = NoOut
    /\ RaceFixed
    /\ UNCHANGED << dev, pc, ser, running, best_score, best_bits, sample_count,
                    all_samples >>

\* self.tick_buffer[tick][sidx] = bmask, then the test of the entry's length;
\* a tick that is no longer a key raises KeyError
RacePut ==
    /\ client = "dashboard"
    /\ pc = "gui"
    /\ upd.at = "put"
    /\ IF upd.r.tick \notin DOMAIN tick_buffer
       THEN RaceSkip
       ELSE LET buf1 == store(tick_buffer, upd.r.tick, upd.r.sidx, upd.r.bmask)
            IN  /\ tick_buffer' = buf1
                /\ upd' = IF is_full(buf1[upd.r.tick])
                           THEN [upd EXCEPT !.at = "score"]
                           ELSE [UpdIdle EXCEPT !.at = "waiting"]
                /\ UNCHANGED << best_score, best_bits, sample_count, all_samples >>
    /\ out' = NoOut
    /\ RaceFixed
    /\ UNCHANGED << dev, pc, ser, running >>

\* vec, bits, score, bitstr, and the read of self.sample_count in
\* "self.sample_count += 1"
RaceScore ==
    /\ client = "dashboard"
    /\ pc = "gui"
    /\ upd.at = "score"
    /\ Len(all_samples) < MaxSamples
    /\ IF upd.r.tick \notin DOMAIN tick_buffer
       THEN RaceSkip
       ELSE LET vec == dash_vec(tick_buffer[upd.r.tick])
                bits == concatenate(vec)
            IN  /\ upd' = IF Len(vec) = NUM_SLAVES
                           THEN [upd EXCEPT
                                   !.at = "count",
                                   !.count = sample_count,
                                   !.sample = Some([tick |-> upd.r.tick,
                                                    score |-> maxcut_score(bits, EDGES),
                                                    bits |-> bitstr(bits)])]
                           ELSE [upd EXCEPT !.at = "cleanup"]
                /\ UNCHANGED << tick_buffer, best_score, best_bits, sample_count,
                                all_samples >>
    /\ out' = NoOut
    /\ RaceFixed
    /\ UNCHANGED << dev, pc, ser, running >>

\* the write of self.sample_count, all_samples.append, the best result
RaceCount ==
    /\ client = "dashboard"
    /\ pc = "gui"
    /\ upd.at = "count"
    /\ sample_count' = upd.count + 1
    /\ all_samples' = Append(all_samples, upd.sample[1])
    /\ best_score' = IF dash_improves(upd.sample[1].score, best_score)
                      THEN upd.sample[1].score ELSE best_score
    /\ best_bits' = IF dash_improves(upd.sample[1].score, best_score)
                     THEN Some(upd.sample[1].bits) ELSE best_bits
    /\ upd' = [upd EXCEPT !.at = "cleanup"]
    /\ out' = NoOut
    /\ RaceFixed
    /\ UNCHANGED << dev, pc, ser, running, tick_buffer >>

\* if len(self.tick_buffer) > 50: pop the old ticks (the annealing block that
\* follows does nothing: anneal_active is off in this specification)
RaceCleanup ==
    /\ client = "dashboard"
    /\ pc = "gui"
    /\ upd.at = "cleanup"
    /\ tick_buffer' = cleanup(tick_buffer)
    /\ upd' = [UpdIdle EXCEPT !.at = "waiting"]
    /\ out' = NoOut
    /\ RaceFixed
    /\ UNCHANGED << dev, pc, ser, running, best_score, best_bits, sample_count,
                    all_samples >>

\* ------------------------------------------------------------------------
\* Specifications
\* ------------------------------------------------------------------------
ConsoleRead == \E line \in DevLines(feed, dev), d \in {0, 1} : ConsoleReadLine(line, d)
DashRead == \E line \in DevLines(feed, dev) : DashReadLine(line)
OnStart == \E opens \in BOOLEAN : on_start(opens)
OnRestart == \E opens \in BOOLEAN : on_restart(opens)

Next ==
    \/ ConsoleRead
    \/ ConsoleReadEmpty
    \/ ConsoleInterrupt
    \/ OnStart
    \/ on_stop
    \/ on_clear
    \/ OnRestart
    \/ DashRead

Spec == Init /\ [][Next]_vars

SpecRetention == InitRetention /\ [][Next]_vars

\* bits_from_bmask on its own: a mask and a width, then the call
InitBits ==
    \E m \in 0..MaxMask, w \in 0..MaxWidth :
        InitAt("decoder", "none", "call", "None", [bmask |-> m, width |-> w], << >>)
DecodeBits ==
    /\ client = "decoder"
    /\ pc = "call"
    /\ pc' = "returned"
    /\ out' = [cls |-> "bits",
               sample |-> Some(bits_from_bmask(inputs.bmask, inputs.width))]
    /\ UNCHANGED << client, feed, dev, ser, running, now, last_rx_time, stop_reason,
                    tick_buffer, best_score, best_bits, best_tick, sample_count,
                    all_samples, history, latest, lost >>
    /\ UNCHANGED ctl
NextBits == DecodeBits
SpecBits == InitBits /\ [][NextBits]_vars

\* maxcut_score on its own: a bit sequence and an edge list, then the call
Weights == {1, 2}
EdgeChoices ==
    { << i, j, w >> : i \in 0..(MaxScoreBits - 1), j \in 0..(MaxScoreBits - 1),
                      w \in Weights }
EdgeLists == UNION { [1..n -> EdgeChoices] : n \in 0..MaxEdges }
InitScore ==
    \E bits \in [1..MaxScoreBits -> {0, 1}], edges \in EdgeLists :
        InitAt("scorer", "none", "call", "None",
               [bits |-> bits, edges |-> edges], << >>)
ScoreCall ==
    /\ client = "scorer"
    /\ pc = "call"
    /\ pc' = "returned"
    /\ out' = [cls |-> "score",
               sample |-> Some(maxcut_score(inputs.bits, inputs.edges))]
    /\ UNCHANGED << client, feed, dev, ser, running, now, last_rx_time, stop_reason,
                    tick_buffer, best_score, best_bits, best_tick, sample_count,
                    all_samples, history, latest, lost >>
    /\ UNCHANGED ctl
NextScore == ScoreCall
SpecScore == InitScore /\ [][NextScore]_vars

\* a session from its start: the prompts or the GUI, a link that may fail
DashFail == \E where \in {"readline", "in_waiting"} : DashReadFail(where)
ConsoleBegin == \E opens \in BOOLEAN : ConsoleStart(opens)
NextSession ==
    \/ ConsoleBegin
    \/ ConsoleRead
    \/ ConsoleReadEmpty
    \/ ConsoleInterrupt
    \/ ConsoleReadFail
    \/ OnStart
    \/ on_stop
    \/ on_clear
    \/ OnRestart
    \/ GuiEdit
    \/ DashRead
    \/ DashFail
SpecSession == InitSession /\ [][NextSession]_vars

\* the dashboard started and then left alone: run() calls update() every frame
InitDashIdle == InitFor("dashboard", "timing")
NextDashIdle == OnStart \/ DashRead \/ DashIdleFrame
SpecDashIdle ==
    InitDashIdle /\ [][NextDashIdle]_vars /\ WF_vars(DashRead \/ DashIdleFrame)

\* update() on the main thread, the callbacks of the buttons on their own
InitRace == InitFor("dashboard", "sess")
RaceWait == \E more \in BOOLEAN : RaceWaiting(more)
RaceRead == \E line \in DevLines(feed, dev) : RaceReadline(line)
NextRace ==
    \/ OnStart
    \/ on_stop
    \/ on_clear
    \/ OnRestart
    \/ RaceCheck
    \/ RaceWait
    \/ RaceRead
    \/ RaceOpenEntry
    \/ RacePut
    \/ RaceScore
    \/ RaceCount
    \/ RaceCleanup
SpecRace == InitRace /\ [][NextRace]_vars

\* the console left alone (no Ctrl+C); the loop keeps iterating
NextTimeout == ConsoleRead \/ ConsoleReadEmpty
SpecTimeout ==
    InitTimeout /\ [][NextTimeout]_vars /\ WF_vars(ConsoleRead \/ ConsoleReadEmpty)

\* ------------------------------------------------------------------------
\* Properties
\* ------------------------------------------------------------------------
\* the samples scored so far: the console's, or the dashboard's all_samples
Samples == IF client = "console" THEN history ELSE all_samples
Scores == { Samples[i].score : i \in 1..Len(Samples) }
MaxOf(S) == CHOOSE x \in S : \A y \in S : y <= x

\* bit k of the concatenation, in slave order, of the bits of lat[t][0..3]
RefBits(lat, t) ==
    [k \in 1..N_BITS |->
        (lat[t][(k - 1) \div BITS_PER_SLAVE] \div Pow2((k - 1) % BITS_PER_SLAVE)) % 2]

\* C1: whenever a step scores a sample for a tick, the sample's bits are the
\* concatenation, in slave-index order 0..3, of the decoded bits of the bitmask
\* each slave reported last for that tick, whatever the order of arrival.
C1_SampleIsLatestInIndexOrder ==
    out.sample # None =>
        LET t == out.sample[1].tick
        IN  /\ t \in DOMAIN latest
            /\ Slaves \subseteq DOMAIN latest[t]
            /\ out.sample[1].bits = RefBits(latest, t)
\* tick 1 was completed by slave 0, which had reported 0 and reports 5 last
C1_Witness ==
    /\ out.sample # None
    /\ out.sample[1].tick = 1
    /\ out.sample[1].sidx = 0
    /\ latest[1][0] = 5
    /\ out.sample[1].score = 4

\* C2: a tick is completed once: no tick appears twice among the samples
\* scored (a record for a tick already scored produces no further sample).
C2_TickScoredOnce ==
    \A i, j \in 1..Len(Samples) : Samples[i].tick = Samples[j].tick => i = j

\* the slaves held for tick t when the last step scored it (the cleanup of
\* that very step may have removed the tick)
HeldAtScore(t) ==
    IF t \in DOMAIN latest THEN DOMAIN latest[t]
    ELSE IF t \in DOMAIN lost THEN lost[t] ELSE {}
\* C3: a step scores a sample for a tick only if every slave index
\* 0..NUM_SLAVES-1 has reported for it and is held in its entry; a tick with
\* a gap (0,2,3 or 0,2,3,7) is not scored, whether the cleanup runs or not.
C3_ScoredOnlyWhenEverySlaveReported ==
    out.sample # None => Slaves \subseteq HeldAtScore(out.sample[1].tick)
\* tick 1000 holds 0, 2, 3 and 7, the cleanup has run, and no sample exists
C3_Witness ==
    /\ 1000 \in DOMAIN tick_buffer
    /\ DOMAIN tick_buffer[1000] = {0, 2, 3, 7}
    /\ DOMAIN lost # {}
    /\ out.cls = "record"
    /\ out.sample = None
    /\ Samples = << >>

\* the step was taken while a session was receiving, and is not a restart
InSession == IF client = "console" THEN pc = "listening" ELSE running
\* C4 as claimed: within a session best_score never decreases.
C4_NeverDecreasesInSession ==
    [][(InSession /\ InSession' /\ out'.cls # "restart") => best_score' >= best_score]_vars
\* C4 as amended: once a sample has been scored since the program started or
\* since the last on_clear/on_restart, best_score is the greatest score among
\* those samples, and only an on_clear or on_restart step lowers best_score.
C4_BestIsMaxSinceClear ==
    [][/\ Samples' # << >> => best_score' = MaxOf(Scores')
       /\ out'.cls \notin {"clear", "restart"} => best_score' >= best_score]_vars
\* a sample of score 4 was followed by one of score 0, and the best is still 4
C4_Witness ==
    /\ Len(Samples) >= 2
    /\ Samples[1].score = 4
    /\ Samples[2].score = 0
    /\ best_score = 4

\* the first sample among those that reached the greatest score
FirstBest == Min({ i \in 1..Len(history) : history[i].score = MaxOf(Scores) })
\* the smallest tick id among the samples that reached the greatest score
EarliestBestTick ==
    Min({ history[i].tick : i \in { j \in 1..Len(history) : history[j].score = MaxOf(Scores) } })
\* C5 as claimed: console, the best result is that of the earliest tick (the
\* smallest tick id) among the samples sharing the greatest score.
C5_BestIsEarliestTick ==
    (client = "console" /\ history # << >>) => best_tick = Some(EarliestBestTick)
\* C5 as amended: console, the best result (tick and bits) is that of the
\* sample completed first among those sharing the greatest score.
C5_BestIsFirstCompleted ==
    (client = "console" /\ history # << >>) =>
        /\ best_tick = Some(history[FirstBest].tick)
        /\ best_bits = Some(history[FirstBest].bits)
        /\ best_score = history[FirstBest].score
\* tick 2 completed before tick 1, both with score 4: the best stays tick 2
C5_Witness ==
    /\ client = "console"
    /\ Len(history) >= 2
    /\ history[1].tick = 2 /\ history[1].score = 4
    /\ history[2].tick = 1 /\ history[2].score = 4
    /\ best_tick = Some(2)

\* C6: after every processed record the buffer holds at most 50 ticks.
C6_BufferBounded == Cardinality(DOMAIN tick_buffer) <= CLEANUP_ABOVE

\* C7: a tick the cleanup removed while some slave of 0..3 had reported for
\* it is scored by a later step only if all of 0..3 reported again after the
\* removal: the records that had not yet arrived do not complete it.
C7_NoSpuriousCompletion ==
    [][out'.sample # None =>
          LET t == out'.sample[1].tick
              held == IF t \in DOMAIN latest' THEN DOMAIN latest'[t] ELSE lost'[t]
          IN  (t \in DOMAIN lost /\ lost[t] \cap Slaves # {}) =>
                  Slaves \subseteq held]_vars
\* tick 0 was removed holding slaves 0 and 1; slaves 2 and 3 arrived since
C7_Witness ==
    /\ 0 \in DOMAIN lost
    /\ lost[0] = {0, 1}
    /\ 0 \in DOMAIN tick_buffer
    /\ DOMAIN tick_buffer[0] = {2, 3}
    /\ \A i \in 1..Len(Samples) : Samples[i].tick # 0

\* C8: console, a step that reads a malformed data line (fewer than 7 fields,
\* or a field that does not convert) scores nothing, leaves tick_buffer,
\* best_score, best_bits and best_tick as they were, and stays in the loop.
C8_ConsoleDropsMalformed ==
    [][(client = "console" /\ out'.cls = "malformed") =>
          /\ UNCHANGED << tick_buffer, best_score, best_bits, best_tick, history >>
          /\ out'.sample = None
          /\ pc' = "listening"]_vars
\* a malformed line naming tick 1 was read while tick 1 had an entry
C8_Witness ==
    /\ client = "console"
    /\ out.cls = "malformed"
    /\ 1 \in DOMAIN tick_buffer
    /\ pc = "listening"

\* C9: dashboard, a step that reads a malformed data line leaves tick_buffer,
\* sample_count, all_samples and best_score as they were.
C9_DashboardDropsMalformed ==
    [][(client = "dashboard" /\ out'.cls = "malformed") =>
          UNCHANGED << tick_buffer, sample_count, all_samples, best_score >>]_vars

\* C10: console, once the device is silent the loop is never at readline with
\* more than READ_TIMEOUT_S seconds since the last line, and it ends with the
\* timeout message and the link closed.
DeviceSilent == now > MaxRxTime
C10_IdleTimeoutStops ==
    /\ [](pc = "listening" => now - last_rx_time <= READ_TIMEOUT_S)
    /\ [](stop_reason = "timeout" => now - last_rx_time > READ_TIMEOUT_S)
    /\ (pc = "listening" /\ DeviceSilent)
           ~> (pc = "done" /\ stop_reason = "timeout" /\ ser = "closed")
\* the loop ended on the timeout with one sample scored, fewer than BATCH_K
C10_Witness ==
    /\ pc = "done"
    /\ stop_reason = "timeout"
    /\ ser = "closed"
    /\ now - last_rx_time = READ_TIMEOUT_S + 1
    /\ Len(history) = 1
    /\ Len(history) < BATCH_K

\* the commands of a list, by name
Cmds(snt) == [i \in 1..Len(snt) |-> snt[i].cmd]
\* @HELLO, @PARAM, @GET once each and in that order, then only @PARAM again
Handshaken(snt) ==
    /\ Len(snt) >= 3
    /\ SubSeq(Cmds(snt), 1, 3) = << "HELLO", "PARAM", "GET" >>
    /\ \A i \in 4..Len(snt) : snt[i].cmd = "PARAM"
\* the step read the link (a line, nothing, or an error)
ReadClasses == {"other", "done", "record", "malformed", "readfail"}
\* C11: what is written on a freshly opened link is @HELLO, @PARAM, @GET in
\* that order and once each; a session is receiving (console in its loop,
\* dashboard running) only with all three written, every read of the link
\* comes after them, and the step that writes them reads nothing.
C11_HandshakeBeforeReceiving ==
    /\ [](Len(sent) <= 3 =>
             Cmds(sent) = SubSeq(<< "HELLO", "PARAM", "GET" >>, 1, Len(sent)))
    /\ [](InSession => Handshaken(sent))
    /\ [][out'.cls \in ReadClasses => Handshaken(sent)]_vars
    /\ [][out'.cls = "start" => dev' = dev]_vars
\* a session that has sent exactly the three commands has read a record
C11_Witness ==
    /\ InSession
    /\ Len(sent) = 3
    /\ out.cls = "record"

\* some tick in the buffer lacks a slave
HoldsIncomplete == \E t \in DOMAIN tick_buffer : ~(Slaves \subseteq DOMAIN tick_buffer[t])
\* C12: the step that reads a line starting with @DONE ends the session
\* without scoring anything; while no session is receiving, no line is read,
\* no sample is scored, and the best result and the buffer stay as they are
\* (the dashboard's on_clear and on_restart aside).
C12_DoneEndsSession ==
    /\ [][out'.cls = "done" =>
            /\ ~InSession'
            /\ UNCHANGED << tick_buffer, best_score, best_bits, best_tick,
                            sample_count, all_samples, history >>]_vars
    /\ [][~InSession => (out'.cls \notin ReadClasses /\ dev' = dev)]_vars
    /\ [][(~InSession /\ out'.cls \notin {"clear", "restart"}) =>
            UNCHANGED << tick_buffer, best_score, best_bits, best_tick,
                         sample_count, all_samples, history >>]_vars
\* @DONE was read after a sample was scored and with a tick still incomplete
C12_Witness ==
    /\ out.cls = "done"
    /\ ~InSession
    /\ Len(Samples) >= 1
    /\ HoldsIncomplete

\* C13: dashboard, a sample scored after an on_stop holds no record received
\* before that on_stop, and a session starts with an empty tick buffer.
C13_StopDiscardsPartialTicks ==
    /\ [][(client = "dashboard" /\ out'.sample # None) =>
            LET s == out'.sample[1]
            IN  (IF s.tick \in DOMAIN stale THEN stale[s.tick] \ {s.sidx} ELSE {}) = {}]_vars
    /\ [][(client = "dashboard" /\ ~running /\ running') => tick_buffer' = << >>]_vars

\* C14: console, however the loop ended the link was closed, an error of the
\* close swallowed; dashboard, after on_stop the session is not running and
\* self.ser is None, also when the close fails.
C14_StopReleasesLink ==
    /\ []((client = "console" /\ pc = "done" /\ stop_reason # "noport") =>
             ser \in {"closed", "close_failed"})
    /\ [][(client = "dashboard" /\ out'.cls = "stop") =>
            (~running' /\ ser' = "None")]_vars

\* C15: a read that fails while a session is receiving ends the session
\* (console: the loop is left; dashboard: running becomes false), and the
\* step after it is not another read of the link.
C15_LinkLossClosesSession ==
    /\ [][out'.cls = "readfail" => ~InSession']_vars
    /\ [][out.cls = "readfail" => out'.cls \notin ReadClasses]_vars

\* the step, no on_restart, left the session running
Receiving == running /\ running' /\ out'.cls # "restart"
\* the step wrote one more command on the link of a running session
RePush == Receiving /\ Len(sent') = Len(sent) + 1
\* C16: dashboard, a command written while receiving is a @PARAM, written
\* only with annealing enabled and with a temperature at least 0.01 away from
\* last_sent_t; last_sent_t then is the temperature pushed (the N field is that
\* temperature to two decimals), and it changes in no other step of a running
\* session, so each push is at least 0.01 away from the one before it; B, K
\* and M of every re-push are those of the first @PARAM.
C16_RepushOnlyBeyondHysteresis ==
    /\ [][(client = "dashboard" /\ RePush) =>
            LET cmd == sent'[Len(sent')]
                was == last_sent_t
                is == last_sent_t'
            IN  /\ sent' = Append(sent, cmd)
                /\ cmd.cmd = "PARAM"
                /\ inputs.anneal_active
                /\ Abs(is.n * was.d - was.n * is.d) >= is.d * was.d
                /\ cmd.N = Round(is.n, is.d)
                /\ << cmd.B, cmd.K, cmd.M >> = << sent[2].B, sent[2].K, sent[2].M >>]_vars
    /\ [][(client = "dashboard" /\ Receiving /\ last_sent_t' # last_sent_t)
            => RePush]_vars
\* with K = 2 and the schedule 0.35 -> 0.34 the first sample (0.345) pushed
\* nothing and the second pushed 0.34
C16_Witness ==
    /\ running
    /\ batch_k = 2
    /\ sample_count = 2
    /\ Len(sent) = 4
    /\ sent[4].N = 34
    /\ last_sent_t = Rat(68, 2)

\* C17: dashboard, with the t_start and t_end fields both in [0,1] every
\* temperature re-pushed lies in [0,1].
C17_PushedTemperatureInUnitRange ==
    [][(/\ client = "dashboard"
        /\ RePush
        /\ inputs.t_start \in 0..100
        /\ inputs.t_end \in 0..100) =>
          (0 <= last_sent_t'.n /\ last_sent_t'.n <= 100 * last_sent_t'.d)]_vars

\* the ranges of the fields of @PARAM and @GET (T in thousandths)
Ranges ==
    [T |-> << 0, 1000 >>, B |-> << -127, 127 >>, KP |-> << 0, 255 >>,
     M |-> << 0, 255 >>, K |-> << 1, 2000 >>, STRIDE |-> << 1, 1000 >>,
     BURN |-> << 0, 5000 >>]
Within(v, range) == range[1] <= v /\ v <= range[2]
\* the values a console's commands carry, by the name of the prompt
Carried(snt) ==
    [B |-> snt[2].B, KP |-> snt[2].K, M |-> snt[2].M,
     K |-> snt[3].K, STRIDE |-> snt[3].STRIDE, BURN |-> snt[3].BURN]
\* the integer fields are in range, a typed value in range is carried as
\* typed, one below or above its range as the nearest bound
IntegersClamped(snt) ==
    \A f \in DOMAIN Carried(snt) :
        LET v == Carried(snt)[f]
        IN  /\ Within(v, Ranges[f])
            /\ Within(inputs[f], Ranges[f]) => v = inputs[f]
            /\ inputs[f] < Ranges[f][1] => v = Ranges[f][1]
            /\ inputs[f] > Ranges[f][2] => v = Ranges[f][2]
\* C18 as claimed: console, the commands sent carry every value in its range,
\* and a typed value already in range is sent unchanged, the temperature
\* included.
C18_ClampedAndUnchanged ==
    (client = "console" /\ Len(sent) = 3) =>
        /\ IntegersClamped(sent)
        /\ Within(10 * sent[2].N, Ranges.T)
        /\ Within(inputs.T, Ranges.T) => 10 * sent[2].N = inputs.T
\* C18 as amended: console, the commands sent carry every value in its range;
\* a typed integer already in range is sent unchanged, and a typed
\* temperature in range is sent rounded to two decimals.
C18_ClampedAndRounded ==
    (client = "console" /\ Len(sent) = 3) =>
        /\ IntegersClamped(sent)
        /\ Within(10 * sent[2].N, Ranges.T)
        /\ Within(inputs.T, Ranges.T) => Abs(10 * sent[2].N - inputs.T) <= 5
        /\ inputs.T < 0 => sent[2].N = 0
        /\ inputs.T > 1000 => sent[2].N = 100
\* every value was typed above its range and the loop was entered
C18_Witness ==
    /\ client = "console"
    /\ pc = "listening"
    /\ inputs.K = 2001 /\ inputs.T = 1500 /\ inputs.B = 200
    /\ sent[3].K = 2000 /\ sent[2].N = 100 /\ sent[2].B = 127

\* C19: dashboard, the @GET of a session carries a count in [1,2000], its
\* first @PARAM a temperature in [0,1], and batch_k is that count.
C19_DashboardClamps ==
    (client = "dashboard" /\ running) =>
        /\ Within(sent[3].K, Ranges.K)
        /\ Within(10 * sent[2].N, Ranges.T)
        /\ batch_k = sent[3].K
        /\ batch_k >= 1

\* the number whose binary digits, least significant first, are bits
RECURSIVE BitsValue(_)
BitsValue(bits) ==
    IF bits = << >> THEN 0 ELSE Head(bits) + 2 * BitsValue(Tail(bits))
\* C20: bits_from_bmask(mask, width) has exactly width entries, each 0 or 1;
\* entry k (from 0) is 1 exactly when mask mod 2^(k+1) reaches 2^k, so the
\* entries are the binary digits of mask mod 2^width, least significant
\* first, and the digits of mask from position width on play no part.
C20_BitsLittleEndian ==
    out.cls = "bits" =>
        LET bits == out.sample[1]
            mask == inputs.bmask
            width == inputs.width
        IN  /\ Len(bits) = width
            /\ \A k \in 0..(width - 1) :
                  /\ bits[k + 1] \in {0, 1}
                  /\ bits[k + 1] = 1 <=> mask % Pow2(k + 1) >= Pow2(k)
            /\ BitsValue(bits) = mask % Pow2(width)
            /\ bits = bits_from_bmask(mask % Pow2(width), width)
\* mask 22 = 10110b at width 4 gives 0,1,1,0: digit 4 of the mask is dropped
C20_Witness ==
    /\ out.cls = "bits"
    /\ inputs.bmask = 22
    /\ inputs.width = 4
    /\ out.sample[1] = << 0, 1, 1, 0 >>

\* the sum of f over the finite set S
RECURSIVE SumOver(_, _)
SumOver(S, f) ==
    IF S = {} THEN 0
    ELSE LET x == CHOOSE y \in S : TRUE IN f[x] + SumOver(S \ {x}, f)
\* the positions of the edges whose endpoints hold different bits
CutAt(bits, edges) ==
    { k \in 1..Len(edges) : bits[edges[k][1] + 1] # bits[edges[k][2] + 1] }
\* the rearrangements of the positions 1..n
Perms(n) == { p \in [1..n -> 1..n] : \A a, b \in 1..n : p[a] = p[b] => a = b }
\* C21: maxcut_score(bits, edges) is the sum of the weights of the edges whose
\* endpoints hold different bits; every reordering of the edge list gives the
\* same score; the score of an empty edge list is 0 and so is the score of a
\* bit sequence whose bits are all equal.
C21_ScoreIsCutWeight ==
    out.cls = "score" =>
        LET bits == inputs.bits
            edges == inputs.edges
            score == out.sample[1]
        IN  /\ score = SumOver(CutAt(bits, edges), [k \in 1..Len(edges) |-> edges[k][3]])
            /\ \A p \in Perms(Len(edges)) :
                  maxcut_score(bits, [k \in 1..Len(edges) |-> edges[p[k]]]) = score
            /\ edges = << >> => score = 0
            /\ (\A a, b \in 1..Len(bits) : bits[a] = bits[b]) => score = 0
\* bits 0,1,0 with the edges (0,1,2), (1,1,1), (2,1,1): the first and the third
\* are cut, the loop on node 1 is not, the score is 3
C21_Witness ==
    /\ out.cls = "score"
    /\ inputs.bits = << 0, 1, 0 >>
    /\ inputs.edges = << << 0, 1, 2 >>, << 1, 1, 1 >>, << 2, 1, 1 >> >>
    /\ out.sample[1] = 3

\* C22: both clients, whenever at least one sample has been completed the
\* best bits are set and are the bits of a completed sample whose score is the
\* best score; in particular the first sample completed is the best result
\* when it is the only one, whatever its score.
C22_BestSetAfterFirstSample ==
    Samples # << >> =>
        /\ best_bits # None
        /\ \E i \in 1..Len(Samples) :
              /\ Samples[i].bits = best_bits[1]
              /\ Samples[i].score = best_score
        /\ Len(Samples) = 1 => best_score = Samples[1].score

\* the ticks the step took out of the buffer
Evicted == DOMAIN tick_buffer \ DOMAIN tick_buffer'
\* C23: both clients, a step that processes a record and removes ticks found
\* more than 50 distinct ticks; every tick it removes has a smaller id than
\* every tick it keeps, complete or not; exactly 20 ticks stay, each of them
\* held before the removal, and only the tick of the record read can differ.
C23_EvictionKeepsNewestTwenty ==
    [][(out'.cls = "record" /\ Evicted # {}) =>
          LET before == DOMAIN tick_buffer \cup DOMAIN tick_buffer'
              kept == DOMAIN tick_buffer'
          IN  /\ Cardinality(before) > CLEANUP_ABOVE
              /\ Cardinality(kept) = CLEANUP_KEEP
              /\ \A old \in Evicted, t \in kept : old < t
              /\ kept \subseteq DOMAIN tick_buffer
              /\ Cardinality({ t \in kept : tick_buffer'[t] # tick_buffer[t] }) <= 1]_vars
\* an eviction took out tick 0 with all of slaves 0..3 (complete) and tick 1
\* with slave 0 only (incomplete); the 20 ticks that stay are all newer
C23_Witness ==
    /\ 0 \in DOMAIN lost /\ Slaves \subseteq lost[0]
    /\ 1 \in DOMAIN lost /\ lost[1] = {0}
    /\ Cardinality(DOMAIN tick_buffer) = CLEANUP_KEEP
    /\ \A t \in DOMAIN tick_buffer : t > CLEANUP_KEEP

\* C24: dashboard, a running session whose device has gone silent without
\* sending @DONE stops running, with no user action, once the idle duration
\* has elapsed.
C24_DashIdleTimeoutStops ==
    (client = "dashboard" /\ running /\ DeviceSilent) ~> ~running

\* C25: dashboard, no on_start opens a link while a link opened before has
\* not been closed, and an on_start while running changes neither the link
\* nor the commands written.
C25_AtMostOneLinkOpen ==
    /\ [](client = "dashboard" => ~overlap)
    /\ [][(client = "dashboard" /\ running /\ out'.cls = "start")
            => (ser' = ser /\ sent' = sent /\ running')]_vars

\* update() took the step
UpdateStep == upd' # upd
\* C26: dashboard, with on_stop, on_clear and on_restart running between any
\* two steps of update(): update() asks in_waiting and calls readline only on
\* a link on_stop has not released; a record it has read is stored; and the
\* sample count stays the number of samples recorded.
C26_UpdateSafeAgainstCallbacks ==
    /\ [][(UpdateStep /\ upd.at \in {"waiting", "read"}) => ser = "open"]_vars
    /\ [][(UpdateStep /\ upd.at = "put") =>
            /\ upd.r.tick \in DOMAIN tick_buffer'
            /\ upd.r.sidx \in DOMAIN tick_buffer'[upd.r.tick]]_vars
    /\ [](client = "dashboard" => sample_count = Len(all_samples))

====
